---- MODULE Spec2Model ----
(***************************************************************************)
(* A model of the graph normalizing flow of gf/models/gf.py: ActNorm,      *)
(* OneByOneConv, GFLayerNSF and the flow stack GF, together with the       *)
(* training loop's parameter updates.                                      *)
(*                                                                         *)
(* Numbers.  Tensor entries are exact rationals <<n, d>> (d > 0, lowest    *)
(* terms), so that x * s + mu and (z - mu) / s are the real operations and *)
(* an inverse is exact or visibly not.  Logarithms are taken to base 2     *)
(* (exp(a) is 2^a, log|det W| is log2|det W|): only the unit of the        *)
(* log-determinants changes, and they stay integers for the parameter      *)
(* values the model draws.                                                 *)
(*                                                                         *)
(* Tensors are sequences: a (batch, nodes, dim) tensor is a sequence of    *)
(* graphs, each a sequence of rows, each a sequence of dim rationals.      *)
(***************************************************************************)
EXTENDS Integers, Sequences, FiniteSets, TLC

\* ---------------------------------------------------------------- bounds
MaxBatch == 3
MaxNodes == 2
NumFlows == 2
MaxSteps == 1

\* ------------------------------------------------------ program constants
embedding_dim == 2
K == 5
B == 3

Half == embedding_dim \div 2

\* -------------------------------------------------------------- rationals
Abs(a) == IF a < 0 THEN -a ELSE a

RECURSIVE GCD(_, _)
GCD(a, b) == IF b = 0 THEN a ELSE GCD(b, a % b)

Rat(n, d) ==
    LET g == GCD(Abs(n), Abs(d))
        s == IF d < 0 THEN -1 ELSE 1
    IN  <<(s * n) \div g, (s * d) \div g>>

R(n) == <<n, 1>>
RAdd(p, q) ==
    LET g == GCD(p[2], q[2]) IN
    Rat(p[1] * (q[2] \div g) + q[1] * (p[2] \div g), (p[2] \div g) * q[2])
RNeg(p) == <<-p[1], p[2]>>
RSub(p, q) == RAdd(p, RNeg(q))
RMul(p, q) ==
    LET g == GCD(Abs(p[1]), q[2])
        h == GCD(Abs(q[1]), p[2])
    IN  Rat((p[1] \div g) * (q[1] \div h), (p[2] \div h) * (q[2] \div g))
RDiv(p, q) == RMul(p, Rat(q[2], q[1]))
RLess(p, q) == p[1] * q[2] < q[1] * p[2]
RLeq(p, q) == p[1] * q[2] <= q[1] * p[2]

RECURSIVE Pow2(_)
Pow2(a) == IF a = 0 THEN R(1)
           ELSE IF a > 0 THEN RMul(R(2), Pow2(a - 1))
           ELSE RDiv(Pow2(a + 1), R(2))

\* log2 |p| for p a (positive or negative) power of two
RECURSIVE Log2Abs(_)
Log2Abs(p) ==
    LET n == Abs(p[1]) IN
    IF n = p[2] THEN 0
    ELSE IF n > p[2] THEN 1 + Log2Abs(<<n, 2 * p[2]>>)
    ELSE Log2Abs(<<2 * n, p[2]>>) - 1

RECURSIVE SumSeq(_)
SumSeq(s) == IF s = <<>> THEN 0 ELSE Head(s) + SumSeq(Tail(s))

RECURSIVE RSumSeq(_)
RSumSeq(s) == IF s = <<>> THEN R(0) ELSE RAdd(Head(s), RSumSeq(Tail(s)))

\* ---------------------------------------------------------------- tensors
Range(n) == 1..n

\* a function over 1..n as the tuple of its values
Eager(f) == f \o <<>>

\* the steps of a computation, evaluated one after the other as the code runs
\* them; the value is the last step's
InOrder(steps) == steps[Len(steps)]

Shape0(t) == Len(t)
Shape1(t) == Len(t[1])
Shape2(t) == Len(t[1][1])

\* x[:, :, lo : hi]  (lo exclusive, hi inclusive, counting from 1)
Slice(t, lo, hi) ==
    Eager([b \in Range(Len(t)) |-> Eager([n \in Range(Len(t[b])) |->
        Eager([d \in Range(hi - lo) |-> t[b][n][lo + d]])])])

\* torch.cat([lo, up], dim = 2)
Cat(lo, up) ==
    Eager([b \in Range(Len(lo)) |-> Eager([n \in Range(Len(lo[b])) |-> lo[b][n] \o up[b][n]])])

\* row @ M for a row vector and a square matrix
RowMat(row, M) ==
    Eager([d \in Range(Len(row)) |->
        RSumSeq(Eager([k \in Range(Len(row)) |-> RMul(row[k], M[k][d])]))])

MatMul(t, M) ==
    Eager([b \in Range(Len(t)) |-> Eager([n \in Range(Len(t[b])) |-> RowMat(t[b][n], M)])])

Det(M) == RSub(RMul(M[1][1], M[2][2]), RMul(M[1][2], M[2][1]))

\* torch.inverse for the 2 x 2 matrices of the model: adjugate over determinant
Inverse(M) ==
    LET dt == Det(M) IN
    << <<RDiv(M[2][2], dt), RDiv(RNeg(M[1][2]), dt)>>,
       <<RDiv(RNeg(M[2][1]), dt), RDiv(M[1][1], dt)>> >>

\* torch.slogdet(W)[1], to base 2
SLogDet(M) == Log2Abs(Det(M))

Identity == << <<R(1), R(0)>>, <<R(0), R(1)>> >>

\* variant: the sum taken over every position, the mask dropped
MaskedSumInt_Unmasked(t, mask) ==
    Eager([b \in Range(Len(t)) |->
        SumSeq(Eager([n \in Range(Len(t[b])) |->
            SumSeq(Eager([d \in Range(Len(t[b][n])) |-> t[b][n][d]]))]))])

\* sum(t * mask.unsqueeze(2), dim = (1, 2)) for an integer tensor t: one number
\* per graph
MaskedSumInt(t, mask) ==
    Eager([b \in Range(Len(t)) |->
        SumSeq(Eager([n \in Range(Len(t[b])) |->
            SumSeq(Eager([d \in Range(Len(t[b][n])) |-> t[b][n][d] * mask[b][n]]))]))])

MaskedSumRat(t, mask) ==
    Eager([b \in Range(Len(t)) |->
        RSumSeq(Eager([n \in Range(Len(t[b])) |->
            RSumSeq(Eager([d \in Range(Len(t[b][n])) |-> RMul(t[b][n][d], R(mask[b][n]))]))]))])

VecAdd(a, b) == Eager([i \in Range(Len(a)) |-> a[i] + b[i]])

\* ---------------------------------------------------------------- ActNorm
\* an = [mu, log_sigma]: one entry per feature
ActNorm_forward(an, x, v) ==
    [z |-> Eager([b \in Range(Len(x)) |-> Eager([n \in Range(Len(x[b])) |->
              Eager([d \in Range(Len(x[b][n])) |->
                  RAdd(RMul(x[b][n][d], Pow2(an.log_sigma[d])), an.mu[d])])])]),
     log_det |-> Eager([b \in Range(Shape0(x)) |-> SumSeq(an.log_sigma) * v[b]])]

\* variant: backward returning forward's log-determinant, the sign kept
ActNorm_backward_SameSign(an, z, v) ==
    [x |-> Eager([b \in Range(Len(z)) |-> Eager([n \in Range(Len(z[b])) |->
              Eager([d \in Range(Len(z[b][n])) |->
                  RDiv(RSub(z[b][n][d], an.mu[d]), Pow2(an.log_sigma[d]))])])]),
     log_det |-> Eager([b \in Range(Shape0(z)) |-> SumSeq(an.log_sigma) * v[b]])]

ActNorm_backward(an, z, v) ==
    [x |-> Eager([b \in Range(Len(z)) |-> Eager([n \in Range(Len(z[b])) |->
              Eager([d \in Range(Len(z[b][n])) |->
                  RDiv(RSub(z[b][n][d], an.mu[d]), Pow2(an.log_sigma[d]))])])]),
     log_det |-> Eager([b \in Range(Shape0(z)) |-> (-SumSeq(an.log_sigma)) * v[b]])]

\* ----------------------------------------------------------- OneByOneConv
\* conv = [W, W_inv]; W_inv = None until the first backward
None == <<>>

OneByOneConv_forward(conv, x, v) ==
    [z |-> MatMul(x, conv.W),
     log_det |-> Eager([b \in Range(Shape0(x)) |-> SLogDet(conv.W) * v[b]])]

\* the layer after the call is part of the result: backward fills the cache
OneByOneConv_backward(conv, z, v) ==
    LET W_inv == IF conv.W_inv = None THEN Inverse(conv.W) ELSE conv.W_inv IN
    [x |-> MatMul(z, W_inv),
     log_det |-> Eager([b \in Range(Shape0(z)) |-> (-SLogDet(conv.W)) * v[b]]),
     used |-> W_inv,
     conv |-> [conv EXCEPT !.W_inv = W_inv]]


\* --------------------------------------------------- masking and splines
\* mask[b][n] = 1 iff node n (counted from 1) is one of the first v[b]
construct_embedding_mask(x, v) ==
    Eager([b \in Range(Shape0(x)) |-> Eager([n \in Range(Shape1(x)) |->
        IF n <= v[b] THEN 1 ELSE 0])])

\* The spline parameters a conditioner can emit: K bin widths and K bin
\* heights, each summing to 2 * B (softmax scaled by 2 * B).  The bins are
\* linear pieces whose slopes are powers of two.
NumSplines == 3

SplineParams(k) ==
    CASE k = 0 -> [W |-> <<1, 1, 2, 1, 1>>, H |-> <<1, 1, 2, 1, 1>>]
      [] k = 1 -> [W |-> <<1, 1, 2, 1, 1>>, H |-> <<2, 1, 1, 1, 1>>]
      [] OTHER -> [W |-> <<2, 1, 1, 1, 1>>, H |-> <<1, 1, 1, 1, 2>>]

\* the bin of a holding a + from[k] > x (the last bin at the upper bound)
RECURSIVE Piece(_, _, _, _, _, _)
Piece(xv, from, to, k, a, b) ==
    IF k = K \/ RLess(xv, R(a + from[k]))
    THEN [out |-> RAdd(R(b), RMul(RSub(xv, R(a)), Rat(to[k], from[k]))),
          ld  |-> Log2Abs(Rat(to[k], from[k]))]
    ELSE Piece(xv, from, to, k + 1, a + from[k], b + to[k])

\* one element of unconstrained_RQS: identity outside [-B, B]
RQS1(xv, wh, inverse) ==
    IF RLess(xv, R(-B)) \/ RLess(R(B), xv)
    THEN [out |-> xv, ld |-> 0]
    ELSE IF inverse THEN Piece(xv, wh.H, wh.W, 1, -B, -B)
                    ELSE Piece(xv, wh.W, wh.H, 1, -B, -B)

\* inputs and params are (batch, nodes, dim / 2); returns the outputs and the
\* per-element log|derivative|
unconstrained_RQS(inputs, params, inverse) ==
    [out |-> Eager([b \in Range(Len(inputs)) |-> Eager([n \in Range(Len(inputs[b])) |->
                Eager([d \in Range(Len(inputs[b][n])) |->
                    RQS1(inputs[b][n][d], SplineParams(params[b][n][d]), inverse).out])])]),
     ld  |-> Eager([b \in Range(Len(inputs)) |-> Eager([n \in Range(Len(inputs[b])) |->
                Eager([d \in Range(Len(inputs[b][n])) |->
                    RQS1(inputs[b][n][d], SplineParams(params[b][n][d]), inverse).ld])])])]

\* A conditioner (attention encoder f, then base_network, then the softmax and
\* softplus of the caller): per position and feature the index of the spline
\* parameters.  It depends on the learned parameter th, on the position's own
\* row and, through the attention, on the valid rows of the same graph.
RowKey(row) == SumSeq(Eager([d \in Range(Len(row)) |-> Abs(row[d][1]) + row[d][2]]))

Conditioner(th, h, mask) ==
    Eager([b \in Range(Len(h)) |-> Eager([n \in Range(Len(h[b])) |->
        Eager([d \in Range(Half) |->
            (th + d + RowKey(h[b][n])
                + SumSeq(Eager([m \in Range(Len(h[b])) |-> RowKey(h[b][m]) * mask[b][m]])))
            % NumSplines])])])


\* ------------------------------------------------------------- GFLayerNSF
\* layer = [actnorm |-> [mu, log_sigma], conv |-> [W, W_inv], f1, f2]
\* A method is the composition of its statements; each statement maps the
\* record loc of the method's local variables to their next values.

\* mask = construct_embedding_mask(x, v)
Forward_mask(layer, x, v) ==
    [layer |-> layer, v |-> v, x |-> x,
     mask |-> construct_embedding_mask(x, v),
     log_det |-> <<>>, lower |-> <<>>, upper |-> <<>>,
     ld_upper |-> <<>>, ld_lower |-> <<>>]

\* x, log_det = r
Assign(loc, r) == [loc EXCEPT !.x = r.z, !.log_det = r.log_det]

\* x, ld = r; log_det += ld
AssignAdd(loc, r) == [loc EXCEPT !.x = r.z, !.log_det = VecAdd(@, r.log_det)]

\* x, log_det = self.actnorm(x, v)
Forward_actnorm(loc) ==
    Assign(loc, ActNorm_forward(loc.layer.actnorm, loc.x, loc.v))

\* x, ld = self.conv(x, v); log_det += ld
Forward_conv(loc) ==
    AssignAdd(loc, OneByOneConv_forward(loc.layer.conv, loc.x, loc.v))

\* lower = x[:, :, :dim // 2]; upper = x[:, :, dim // 2:]
Split(loc) ==
    [loc EXCEPT !.lower = Slice(loc.x, 0, Half),
                !.upper = Slice(loc.x, Half, embedding_dim)]

\* upper, ld = r; log_det += torch.sum(ld * mask.unsqueeze(2), dim = (1, 2))
Forward_assign_upper(loc, r) ==
    [loc EXCEPT !.upper = r.out, !.ld_upper = r.ld,
                !.log_det = VecAdd(@, MaskedSumInt(r.ld, loc.mask))]

\* lower, ld = r; log_det += torch.sum(ld * mask.unsqueeze(2), dim = (1, 2))
Forward_assign_lower(loc, r) ==
    [loc EXCEPT !.lower = r.out, !.ld_lower = r.ld,
                !.log_det = VecAdd(@, MaskedSumInt(r.ld, loc.mask))]

\* the upper half through the spline conditioned by f1 on the lower half
Forward_upper(loc) ==
    Forward_assign_upper(loc,
        unconstrained_RQS(loc.upper, Conditioner(loc.layer.f1, loc.lower, loc.mask), FALSE))

\* the lower half through the spline conditioned by f2 on the new upper half
Forward_lower(loc) ==
    Forward_assign_lower(loc,
        unconstrained_RQS(loc.lower, Conditioner(loc.layer.f2, loc.upper, loc.mask), FALSE))

\* return torch.cat([lower, upper], dim = 2), log_det
Forward_return(loc) ==
    [z |-> Cat(loc.lower, loc.upper),
     log_det |-> loc.log_det,
     ld_upper |-> loc.ld_upper,
     ld_lower |-> loc.ld_lower]

GFLayerNSF_forward(layer, x, v) ==
    Forward_return(Forward_lower(Forward_upper(Split(
        Forward_conv(Forward_actnorm(Forward_mask(layer, x, v)))))))

\* torch broadcasting of a (batch,) vector against a (batch, nodes, dim)
\* tensor: the vector is aligned with the LAST axis
Broadcastable(t, vec) == Len(vec) = Shape2(t) \/ Len(vec) = 1

AddBroadcast(t, vec) ==
    Eager([b \in Range(Len(t)) |-> Eager([n \in Range(Len(t[b])) |->
        Eager([d \in Range(Len(t[b][n])) |->
            t[b][n][d] + vec[IF Len(vec) = 1 THEN 1 ELSE d]])])])

\* torch.zeros_like(z)
ZerosLike(z) ==
    Eager([b \in Range(Len(z)) |-> Eager([n \in Range(Len(z[b])) |->
        Eager([d \in Range(Len(z[b][n])) |-> 0])])])

\* the accumulator backward starts from
BackwardLogDetInit(z) == ZerosLike(z)

Zeros(n) == Eager([b \in Range(n) |-> 0])

\* mask = construct_embedding_mask(z, v); log_det = torch.zeros_like(z)
\* err: a RuntimeError has left the call.  spline keeps the masked sums that
\* were added to log_det, ld1 and ld2 what the linear mix and ActNorm returned.
Backward_mask(layer, z, v) ==
    [layer |-> layer, v |-> v, x |-> z,
     mask |-> construct_embedding_mask(z, v),
     log_det |-> BackwardLogDetInit(z),
     lower |-> <<>>, upper |-> <<>>, ld_upper |-> <<>>, ld_lower |-> <<>>,
     spline |-> Zeros(Len(z)), ld1 |-> <<>>, ld2 |-> <<>>,
     used |-> None, err |-> FALSE]

\* log_det += t, in place: raises unless t broadcasts to log_det's shape
AddInPlace(loc, t) ==
    IF ~Broadcastable(loc.log_det, t)
    THEN [loc EXCEPT !.err = TRUE]
    ELSE [loc EXCEPT !.log_det = AddBroadcast(@, t), !.spline = VecAdd(@, t)]

\* lower, ld = r; log_det += torch.sum(ld * mask.unsqueeze(2), dim = (1, 2))
Backward_assign_lower(loc, r) ==
    AddInPlace([loc EXCEPT !.lower = r.out, !.ld_lower = r.ld],
               MaskedSumInt(r.ld, loc.mask))

\* upper, ld = r; log_det += torch.sum(ld * mask.unsqueeze(2), dim = (1, 2))
Backward_assign_upper(loc, r) ==
    AddInPlace([loc EXCEPT !.upper = r.out, !.ld_upper = r.ld],
               MaskedSumInt(r.ld, loc.mask))

\* the lower half back through the spline conditioned by f2 on the upper half
Backward_lower(loc) ==
    Backward_assign_lower(loc,
        unconstrained_RQS(loc.lower, Conditioner(loc.layer.f2, loc.upper, loc.mask), TRUE))

\* the upper half back through the spline conditioned by f1 on the recovered
\* lower half
Backward_upper(loc) ==
    IF loc.err THEN loc
    ELSE Backward_assign_upper(loc,
        unconstrained_RQS(loc.upper, Conditioner(loc.layer.f1, loc.lower, loc.mask), TRUE))

\* x, ld1 = r, with the linear mix as the call left it
Backward_assign_conv(loc, r) ==
    [loc EXCEPT !.x = r.x, !.ld1 = r.log_det, !.used = r.used, !.layer.conv = r.conv]

\* x, ld1 = self.conv.backward(torch.cat([lower, upper], dim = 2), v)
Backward_conv(loc) ==
    IF loc.err THEN loc
    ELSE Backward_assign_conv(loc,
        OneByOneConv_backward(loc.layer.conv, Cat(loc.lower, loc.upper), loc.v))

\* x, ld2 = r
Backward_assign_actnorm(loc, r) == [loc EXCEPT !.x = r.x, !.ld2 = r.log_det]

\* x, ld2 = self.actnorm.backward(x, v)
Backward_actnorm(loc) ==
    IF loc.err THEN loc
    ELSE Backward_assign_actnorm(loc, ActNorm_backward(loc.layer.actnorm, loc.x, loc.v))

\* return x, log_det + ld1 + ld2; the layer after the call is part of the
\* result
Backward_return(loc) ==
    IF loc.err
    THEN [err |-> TRUE, layer |-> loc.layer]
    ELSE [err |-> FALSE,
          x |-> loc.x,
          log_det |-> AddBroadcast(AddBroadcast(loc.log_det, loc.ld1), loc.ld2),
          log_det_shape |-> <<Shape0(loc.log_det), Shape1(loc.log_det), Shape2(loc.log_det)>>,
          spline |-> loc.spline,
          affine |-> VecAdd(loc.ld1, loc.ld2),
          ld_upper |-> loc.ld_upper,
          ld_lower |-> loc.ld_lower,
          used |-> loc.used,
          layer |-> loc.layer]

GFLayerNSF_backward(layer, z, v) ==
    Backward_return(Backward_actnorm(Backward_conv(Backward_upper(
        Backward_lower(Split(Backward_mask(layer, z, v)))))))


\* ---------------------------------------------------------- EdgePredictor
\* sigmoid to base 2: 2^l / (1 + 2^l)
Sigmoid(l) == RDiv(Pow2(l), RAdd(R(1), Pow2(l)))

\* one logit per unordered node pair i < j of every graph (0 elsewhere)
EP_forward(X, V) ==
    Eager([b \in Range(Len(X)) |-> Eager([i \in Range(Len(X[b])) |-> Eager([j \in Range(Len(X[b])) |->
        IF i < j THEN ((RowKey(X[b][i]) + RowKey(X[b][j])) % 3) - 1 ELSE 0])])])

\* per graph: the distance between A and the predicted edge probabilities,
\* over the pairs of valid nodes
EP_loss(X, A, V) ==
    LET lg == EP_forward(X, V) IN
    Eager([b \in Range(Len(X)) |->
        RSumSeq(Eager([i \in Range(Len(X[b])) |-> RSumSeq(Eager([j \in Range(Len(X[b])) |->
            IF i < j /\ j <= V[b]
            THEN LET d == RSub(R(A[b][i][j]), Sigmoid(lg[b][i][j]))
                 IN  IF RLess(d, R(0)) THEN RNeg(d) ELSE d
            ELSE R(0)]))]))])

\* --------------------------------------------------------------------- GF
\* gf = [flows_L, flows_Z, final_actnorm]
Call(f, i) == [f |-> f, i |-> i]

\* X, LD = r; log_det += LD, with the call noted in the call log
\* acc = [X, log_det, calls]
Accumulate(acc, call, r) ==
    [X |-> r.z,
     log_det |-> VecAdd(acc.log_det, r.log_det),
     calls |-> Append(acc.calls, call)]

\* for flow in flows: X, LD = flow.forward(X, V); log_det += LD
\* `name` labels the list in the call log
RECURSIVE ForwardLoop(_, _, _, _, _)
ForwardLoop(flows, name, i, V, acc) ==
    IF i > Len(flows) THEN acc
    ELSE InOrder(<<acc,
             ForwardLoop(flows, name, i + 1, V,
                 Accumulate(acc, Call(name, i), GFLayerNSF_forward(flows[i], acc.X, V)))>>)

\* Normal(0, 1).log_prob to base 2; the normalising constant log2 sqrt(2 pi)
\* is kept as the rational LogNorm
LogNorm == <<1, 1>>
NormalLogProb(xv) == RSub(RNeg(RDiv(RMul(xv, xv), R(2))), LogNorm)

\* prior.log_prob(X.view(batch_size, -1)).reshape((batch_size, max_n_nodes, -1))
LogProb(X) ==
    Eager([b \in Range(Len(X)) |-> Eager([n \in Range(Len(X[b])) |->
        Eager([d \in Range(Len(X[b][n])) |-> NormalLogProb(X[b][n][d])])])])

\* mask = zeros(batch, max_n_nodes); mask[i, :cnt.int()] = 1
PriorMask(X, V) ==
    Eager([b \in Range(Shape0(X)) |-> Eager([n \in Range(Shape1(X)) |->
        IF n <= V[b] THEN 1 ELSE 0])])

\* variant: prior_logprob + log_det / V - ep_loss, the parentheses lost
Objective_Unparenthesised(prior_logprob, log_det, V, ep_loss) ==
    Eager([b \in Range(Len(V)) |->
        RSub(RAdd(prior_logprob[b], RDiv(R(log_det[b]), R(V[b]))), ep_loss[b])])

\* the objective GF.forward returns
Objective(prior_logprob, log_det, V, ep_loss) ==
    Eager([b \in Range(Len(V)) |->
        RSub(RDiv(RAdd(prior_logprob[b], R(log_det[b])), R(V[b])), ep_loss[b])])

\* variant: the edge-predictor loss taken on the raw input
EdgeLossInput_Raw(raw, X) == raw

\* the embedding the edge-predictor loss is computed on: the current X, not
\* the method's argument
EdgeLossInput(raw, X) == X

\* log_det = torch.zeros(batch_size); loc = [gf, A, V, raw, acc, ...], raw
\* the argument X and acc.X the variable X
GF_forward_begin(gf, X, A, V) ==
    [gf |-> gf, A |-> A, V |-> V, raw |-> X,
     acc |-> [X |-> X, log_det |-> Zeros(Shape0(X)), calls |-> <<>>],
     ep_in |-> <<>>, ep_loss |-> <<>>, prior_logprob |-> <<>>]

\* for flow in self.flows_L: ...
GF_forward_flows_L(loc) ==
    [loc EXCEPT !.acc = ForwardLoop(loc.gf.flows_L, "flows_L", 1, loc.V, @)]

GF_forward_assign_ep(loc, X) ==
    [loc EXCEPT !.ep_in = X,
                !.ep_loss = EP_loss(X, loc.A, loc.V),
                !.acc.calls = Append(@, Call("ep.loss", 0))]

\* ep_loss = self.ep.loss(X, A, V)
GF_forward_ep(loc) == GF_forward_assign_ep(loc, EdgeLossInput(loc.raw, loc.acc.X))

\* for flow in self.flows_Z: ...
GF_forward_flows_Z(loc) ==
    [loc EXCEPT !.acc = ForwardLoop(loc.gf.flows_Z, "flows_Z", 1, loc.V, @)]

\* X, LD = self.final_actnorm(X, V); log_det += LD
GF_forward_final(loc) ==
    [loc EXCEPT !.acc = Accumulate(@, Call("final_actnorm", 0),
                            ActNorm_forward(loc.gf.final_actnorm, loc.acc.X, loc.V))]

\* prior_logprob = torch.sum(prior_logprob * mask.unsqueeze(2), dim = (1, 2))
GF_forward_prior(loc) ==
    [loc EXCEPT !.prior_logprob =
        MaskedSumRat(LogProb(loc.acc.X), PriorMask(loc.raw, loc.V))]

\* return Z, (prior_logprob + log_det) / V - ep_loss
GF_forward_return(loc) ==
    [Z |-> loc.acc.X,
     objective |-> Objective(loc.prior_logprob, loc.acc.log_det, loc.V, loc.ep_loss),
     ep_in |-> loc.ep_in,
     ep_loss |-> loc.ep_loss,
     log_det |-> loc.acc.log_det,
     prior_logprob |-> loc.prior_logprob,
     calls |-> loc.acc.calls]

GF_forward(gf, X, A, V) ==
    GF_forward_return(GF_forward_prior(GF_forward_final(GF_forward_flows_Z(
        GF_forward_ep(GF_forward_flows_L(GF_forward_begin(gf, X, A, V)))))))

SigmoidAll(lg) ==
    Eager([b \in Range(Len(lg)) |-> Eager([i \in Range(Len(lg[b])) |->
        Eager([j \in Range(Len(lg[b][i])) |-> Sigmoid(lg[b][i][j])])])])

\* return torch.sigmoid(self.ep.forward(X, V)), X being acc.X
Predict_return(V, acc) ==
    [A |-> SigmoidAll(EP_forward(acc.X, V)),
     ep_in |-> acc.X,
     calls |-> Append(acc.calls, Call("ep.forward", 0))]

\* variant: the prediction made from the embedding after flows_Z as well
GF_predict_A_from_E_ThroughZ(gf, X, V) ==
    Predict_return(V,
        ForwardLoop(gf.flows_Z, "flows_Z", 1, V,
            ForwardLoop(gf.flows_L, "flows_L", 1, V,
                [X |-> X, log_det |-> Zeros(Shape0(X)), calls |-> <<>>])))

\* for flow in self.flows_L: X, _ = flow.forward(X, V)  (the log-determinants
\* the loop keeps are dropped)
GF_predict_A_from_E(gf, X, V) ==
    Predict_return(V,
        ForwardLoop(gf.flows_L, "flows_L", 1, V,
            [X |-> X, log_det |-> Zeros(Shape0(X)), calls |-> <<>>]))

\* Z, _ = r, for the i-th layer of flows_Z; acc = [err, Z, V, flows, calls]:
\* the layers are handed on, backward may have filled their caches
Undo(acc, i, r) ==
    [acc EXCEPT !.err = r.err,
                !.Z = IF r.err THEN @ ELSE r.x,
                !.flows[i] = r.layer,
                !.calls = Append(@, Call("flows_Z", i))]

\* for flow in self.flows_Z[::-1]: Z, _ = flow.backward(Z, V)
RECURSIVE BackwardLoop(_, _)
BackwardLoop(i, acc) ==
    IF i < 1 \/ acc.err THEN acc
    ELSE BackwardLoop(i - 1, Undo(acc, i, GFLayerNSF_backward(acc.flows[i], acc.Z, acc.V)))

GF_backward_begin(gf, V, r) ==
    [err |-> FALSE, Z |-> r.x, V |-> V, flows |-> gf.flows_Z,
     calls |-> <<Call("final_actnorm", 0)>>]

\* Z, _ = self.final_actnorm.backward(Z, V)
GF_backward_final(gf, Z, V) ==
    GF_backward_begin(gf, V, ActNorm_backward(gf.final_actnorm, Z, V))

GF_backward_flows_Z(acc) == BackwardLoop(Len(acc.flows), acc)

\* return Z
GF_backward_return(acc) ==
    [err |-> acc.err, Z |-> acc.Z, flows_Z |-> acc.flows, calls |-> acc.calls]

GF_backward(gf, Z, V) ==
    GF_backward_return(GF_backward_flows_Z(GF_backward_final(gf, Z, V)))


\* ------------------------------------------------------------- parameters
Swap == << <<R(0), R(1)>>, <<R(1), R(0)>> >>
Rot  == << <<R(0), R(-1)>>, <<R(1), R(0)>> >>

\* W, _ = qr(randn(dim, dim)): an orthogonal matrix, one per layer
InitW(l) == IF l % 3 = 1 THEN Swap ELSE IF l % 3 = 2 THEN Rot ELSE Identity

\* ActNorm.__init__: zeros
InitActNorm == [mu |-> Eager([d \in Range(embedding_dim) |-> R(0)]),
                log_sigma |-> Eager([d \in Range(embedding_dim) |-> 0])]

\* GFLayerNSF.__init__ of the l-th coupling layer (flows_L first, then flows_Z)
InitLayer(l) ==
    [actnorm |-> InitActNorm,
     conv |-> [W |-> InitW(l), W_inv |-> None],
     f1 |-> l, f2 |-> l + 1]

\* the learned parameters after the step-th optimizer step
TrainedW(k) ==
    CASE k % 3 = 0 -> << <<R(2), R(0)>>, <<R(1), R(1)>> >>
      [] k % 3 = 1 -> << <<R(1), R(1)>>, <<R(0), R(1)>> >>
      [] OTHER     -> << <<R(1), R(1)>>, <<R(-1), R(1)>> >>

TrainedActNorm(step, l) ==
    [mu |-> <<Rat(step, 2), R(-(l % 2))>>,
     log_sigma |-> <<(step + l) % 2, -(l % 2)>>]

\* optimizer.step() writes the nn.Parameters; W_inv is a plain attribute and
\* is left as it is
Step(layer, step, l) ==
    [layer EXCEPT !.actnorm = TrainedActNorm(step, l),
                  !.conv.W = TrainedW(step + l),
                  !.f1 = l + step,
                  !.f2 = l + 2 * step + 1]

\* ------------------------------------------------------------------ data
\* the batches next_batch() can supply: graphs padded to MaxNodes rows
NumGraphs == 2

GraphX(g) ==
    Eager([n \in Range(MaxNodes) |-> Eager([d \in Range(embedding_dim) |->
        Rat(((3 * g + 5 * n + 7 * d) % 7) - 3, 1 + ((g + n) % 2))])])

GraphV(g) == IF g = 1 THEN MaxNodes ELSE IF g = 2 THEN 1 ELSE MaxNodes - 1

GraphA(g) ==
    Eager([i \in Range(MaxNodes) |-> Eager([j \in Range(MaxNodes) |->
        IF i # j /\ (i + j + g) % 2 = 1 THEN 1 ELSE 0])])

GraphOf(s, b) == ((s + b) % NumGraphs) + 1

BatchX(nb, s) == Eager([b \in Range(nb) |-> GraphX(GraphOf(s, b))])
BatchA(nb, s) == Eager([b \in Range(nb) |-> GraphA(GraphOf(s, b))])
BatchV(nb, s) == Eager([b \in Range(nb) |-> GraphV(GraphOf(s, b))])

\* a node-count vector whose first entry exceeds the padded dimension
OverV(nb, s) == [BatchV(nb, s) EXCEPT ![1] = MaxNodes + 1]

\* ----------------------------------------------------------------- state
VARIABLES flows_L, flows_Z, final_actnorm, steps, ret

vars == <<flows_L, flows_Z, final_actnorm, steps, ret>>

Idle == [op |-> "none"]

gf == [flows_L |-> flows_L, flows_Z |-> flows_Z, final_actnorm |-> final_actnorm]

Lists == {"flows_L", "flows_Z"}
Flows(list) == IF list = "flows_L" THEN flows_L ELSE flows_Z
LayerNo(list, i) == IF list = "flows_L" THEN i ELSE NumFlows + i

\* GF.__init__
Init ==
    /\ flows_L = Eager([i \in Range(NumFlows) |-> InitLayer(i)])
    /\ flows_Z = Eager([i \in Range(NumFlows) |-> InitLayer(NumFlows + i)])
    /\ final_actnorm = InitActNorm
    /\ steps = 0
    /\ ret = Idle

\* optimizer.step() of the training loop
OptimizerStep ==
    /\ ret = Idle
    /\ steps < MaxSteps
    /\ steps' = steps + 1
    /\ flows_L' = Eager([i \in Range(NumFlows) |-> Step(flows_L[i], steps + 1, i)])
    /\ flows_Z' = Eager([i \in Range(NumFlows) |->
                      Step(flows_Z[i], steps + 1, NumFlows + i)])
    /\ final_actnorm' = TrainedActNorm(steps + 1, 0)
    /\ UNCHANGED ret

\* flow.forward(x, v) on one coupling layer
LayerForward(list, i, nb, s) ==
    /\ ret = Idle
    /\ ret' = [op |-> "layer.forward", list |-> list, i |-> i,
               args |-> [x |-> BatchX(nb, s), v |-> BatchV(nb, s)],
               res |-> GFLayerNSF_forward(Flows(list)[i], BatchX(nb, s), BatchV(nb, s))]
    /\ UNCHANGED <<flows_L, flows_Z, final_actnorm, steps>>

\* flow.backward(z, v) returning r; fwd is the forward call whose output z
\* is, if any
LayerBackwardReturns(list, i, z, v, fwd, r) ==
    /\ ret' = [op |-> "layer.backward", list |-> list, i |-> i,
               args |-> [z |-> z, v |-> v], res |-> r, fwd |-> fwd]
    /\ flows_L' = IF list = "flows_L" THEN [flows_L EXCEPT ![i] = r.layer] ELSE flows_L
    /\ flows_Z' = IF list = "flows_Z" THEN [flows_Z EXCEPT ![i] = r.layer] ELSE flows_Z
    /\ UNCHANGED <<final_actnorm, steps>>

DoLayerBackward(list, i, z, v, fwd) ==
    LayerBackwardReturns(list, i, z, v, fwd, GFLayerNSF_backward(Flows(list)[i], z, v))

\* flow.backward(z, v) on a latent from the data
LayerBackward(list, i, nb, s) ==
    /\ ret = Idle
    /\ DoLayerBackward(list, i, BatchX(nb, s), BatchV(nb, s), Idle)

\* flow.backward(z, v) on the output of the flow.forward(x, v) just made
LayerRoundTrip ==
    /\ ret.op = "layer.forward"
    /\ DoLayerBackward(ret.list, ret.i, ret.res.z, ret.args.v, ret)

\* model.forward(X, A, V)
DoGFForward(X, A, V) ==
    /\ ret' = [op |-> "GF.forward", args |-> [X |-> X, A |-> A, V |-> V],
               res |-> GF_forward(gf, X, A, V)]
    /\ UNCHANGED <<flows_L, flows_Z, final_actnorm, steps>>

GFForward(nb, s, over) ==
    /\ ret = Idle
    /\ DoGFForward(BatchX(nb, s), BatchA(nb, s),
                   IF over THEN OverV(nb, s) ELSE BatchV(nb, s))

GFBackwardReturns(Z, V, fwd, r) ==
    /\ ret' = [op |-> "GF.backward", args |-> [Z |-> Z, V |-> V], res |-> r, fwd |-> fwd]
    /\ flows_Z' = r.flows_Z
    /\ UNCHANGED <<flows_L, final_actnorm, steps>>

DoGFBackward(Z, V, fwd) == GFBackwardReturns(Z, V, fwd, GF_backward(gf, Z, V))

\* model.backward(Z, V) on a latent from the data
GFBackward(nb, s) ==
    /\ ret = Idle
    /\ DoGFBackward(BatchX(nb, s), BatchV(nb, s), Idle)

\* model.backward(Z, V) on the latent model.forward just returned
GFRoundTrip ==
    /\ ret.op = "GF.forward"
    /\ DoGFBackward(ret.res.Z, ret.args.V, ret)

\* model.predict_A_from_E(X, V)
PredictA(nb, s) ==
    /\ ret = Idle
    /\ ret' = [op |-> "GF.predict_A_from_E",
               args |-> [X |-> BatchX(nb, s), V |-> BatchV(nb, s)],
               res |-> GF_predict_A_from_E(gf, BatchX(nb, s), BatchV(nb, s))]
    /\ UNCHANGED <<flows_L, flows_Z, final_actnorm, steps>>

\* the caller drops the result
Return ==
    /\ ret # Idle
    /\ ret' = Idle
    /\ UNCHANGED <<flows_L, flows_Z, final_actnorm, steps>>

Batches == Range(MaxBatch) \X (0 .. NumGraphs - 1)

Next ==
    \/ OptimizerStep
    \/ \E list \in Lists, i \in Range(NumFlows), bs \in Batches :
          LayerForward(list, i, bs[1], bs[2])
    \/ \E list \in Lists, i \in Range(NumFlows), bs \in Batches :
          LayerBackward(list, i, bs[1], bs[2])
    \/ LayerRoundTrip
    \/ \E bs \in Batches, over \in BOOLEAN : GFForward(bs[1], bs[2], over)
    \/ \E bs \in Batches : GFBackward(bs[1], bs[2])
    \/ GFRoundTrip
    \/ \E bs \in Batches : PredictA(bs[1], bs[2])
    \/ Return

Spec == Init /\ [][Next]_vars
\* ----------------------------------------------------------------- claims
\* reference quantities, written from the mathematics and not from the loops
AllFlows == flows_L \o flows_Z

\* the k-th coupling layer (flows_L first, then flows_Z) applied to prev
LayerOf(k, prev, V) == InOrder(<<prev, GFLayerNSF_forward(AllFlows[k], prev, V)>>)

\* the embedding after the first k coupling layers
RECURSIVE After(_, _, _)
After(k, X, V) ==
    IF k = 0 THEN X ELSE LayerOf(k, After(k - 1, X, V), V).z

\* the sum of the log-determinants of the first k coupling layers, each on
\* its own input
RECURSIVE SumLayerLogDet(_, _, _)
SumLayerLogDet(k, X, V) ==
    IF k = 0 THEN Zeros(Len(V))
    ELSE VecAdd(SumLayerLogDet(k - 1, X, V),
                LayerOf(k, After(k - 1, X, V), V).log_det)

Valid(v, nn) == {n \in Range(nn) : n <= v}

RECURSIVE SumOver(_, _)
SumOver(S, f) ==
    IF S = {} THEN 0
    ELSE LET e == CHOOSE e \in S : TRUE IN f[e] + SumOver(S \ {e}, f)

RECURSIVE RSumOver(_, _)
RSumOver(S, f) ==
    IF S = {} THEN R(0)
    ELSE LET e == CHOOSE e \in S : TRUE IN RAdd(f[e], RSumOver(S \ {e}, f))

RoundTripOfLayer == ret.op = "layer.backward" /\ ret.fwd.op = "layer.forward"
RoundTripOfGF == ret.op = "GF.backward" /\ ret.fwd.op = "GF.forward"

\* C1: backward(forward(x, v), v) of a coupling layer returns x.
C1_RoundTrip ==
    RoundTripOfLayer => (~ret.res.err /\ ret.res.x = ret.fwd.args.x)

\* C2: backward's log-determinant is one scalar per graph (shape (batch,)) and
\* the negation of the log-determinant forward returned for the same graph.
C2_LogDetNegates ==
    (RoundTripOfLayer /\ ~ret.res.err) =>
        /\ ret.res.log_det_shape = <<Shape0(ret.args.z)>>
        /\ \A b \in Range(Shape0(ret.args.z)) :
              ret.res.log_det[b] + ret.fwd.res.log_det[b] = 0

\* C3: the matrix OneByOneConv.backward multiplies by is the inverse of the
\* current W, whatever parameter updates and backward calls came before.
C3_InverseOfCurrentW ==
    (ret.op = "layer.backward" /\ ~ret.res.err) =>
        ret.res.used = Inverse(Flows(ret.list)[ret.i].conv.W)

\* C9: a forward or backward call on a coupling layer leaves every attribute
\* of every layer as it was.
C9_LayerCallsArePure ==
    [][ret'.op \in {"layer.forward", "layer.backward"} =>
          (flows_L' = flows_L /\ flows_Z' = flows_Z /\ final_actnorm' = final_actnorm)]_vars

\* the per-node affine log-determinant of a coupling layer: ActNorm plus the
\* linear mix
AffineLogDet(layer) == SumSeq(layer.actnorm.log_sigma) + SLogDet(layer.conv.W)

\* the sum of a spline's log-derivatives of graph b over its valid positions
ValidSum(ld, b, v) ==
    SumOver(Valid(v[b], Len(ld[b])),
            [n \in Valid(v[b], Len(ld[b])) |-> SumSeq(ld[b][n])])

\* the prior log-probability of graph b over its valid positions
ValidPrior(Z, b, V) ==
    RSumOver(Valid(V[b], Len(Z[b])) \X Range(embedding_dim),
             [p \in Valid(V[b], Len(Z[b])) \X Range(embedding_dim) |->
                 NormalLogProb(Z[b][p[1]][p[2]])])

\* the log-determinant of the whole stack: every layer once, then the final
\* ActNorm
TotalLogDet(X, V) ==
    VecAdd(SumLayerLogDet(2 * NumFlows, X, V),
           ActNorm_forward(final_actnorm, After(2 * NumFlows, X, V), V).log_det)

\* the objective of graph b from its parts
ObjectiveOf(P, L, v, ep) == RSub(RDiv(RAdd(P, R(L)), R(v)), ep)

\* C4: GF.forward returns, per graph, (P + L) / V - ep_loss, with P the
\* prior log-probability over the valid positions and L the log-determinants
\* of every layer of flows_L and flows_Z and of the final ActNorm, once each.
C4_Objective ==
    ret.op = "GF.forward" =>
        \A b \in Range(Len(ret.args.V)) :
            ret.res.objective[b] =
                ObjectiveOf(ValidPrior(ret.res.Z, b, ret.args.V),
                            TotalLogDet(ret.args.X, ret.args.V)[b],
                            ret.args.V[b],
                            EP_loss(After(NumFlows, ret.args.X, ret.args.V),
                                    ret.args.A, ret.args.V)[b])

C4_Witness ==
    /\ ret.op = "GF.forward"
    /\ steps > 0
    /\ \E b \in Range(Len(ret.args.V)) : ret.args.V[b] < Shape1(ret.args.X)
    /\ \E b \in Range(Len(ret.args.V)) :
          /\ ret.args.V[b] > 1
          /\ ret.args.V[b] <= Shape1(ret.args.X)
          /\ ret.res.log_det[b] # 0
          /\ ret.res.ep_loss[b] # R(0)

ForwardCalls ==
    [k \in Range(NumFlows) |-> Call("flows_L", k)] \o <<Call("ep.loss", 0)>>
        \o [k \in Range(NumFlows) |-> Call("flows_Z", k)] \o <<Call("final_actnorm", 0)>>

\* C5: GF.forward runs flows_L in list order, the edge-predictor loss,
\* flows_Z in list order, the final ActNorm; the loss is taken on the
\* embedding between flows_L and flows_Z.
C5_Order ==
    ret.op = "GF.forward" =>
        /\ ret.res.calls = ForwardCalls
        /\ ret.res.ep_in = After(NumFlows, ret.args.X, ret.args.V)
        /\ ret.res.ep_loss =
              EP_loss(After(NumFlows, ret.args.X, ret.args.V), ret.args.A, ret.args.V)

C5_Witness ==
    /\ ret.op = "GF.forward"
    /\ steps > 0
    /\ ret.res.ep_in # ret.args.X
    /\ ret.res.ep_in # ret.res.Z
    /\ EP_loss(ret.args.X, ret.args.A, ret.args.V) # ret.res.ep_loss
    /\ EP_loss(ret.res.Z, ret.args.A, ret.args.V) # ret.res.ep_loss

\* C7: padded positions add nothing.  The spline log-determinants of
\* GFLayerNSF.forward and GFLayerNSF.backward and the prior log-probability
\* of GF.forward are sums over the positions below V[i] only, and the ActNorm
\* and linear-mix log-determinants are counted V[i] times.
C7_PaddingAddsNothing ==
    /\ ret.op = "layer.forward" =>
          \A b \in Range(Len(ret.args.v)) :
              ret.res.log_det[b] =
                  ret.args.v[b] * AffineLogDet(Flows(ret.list)[ret.i])
                      + ValidSum(ret.res.ld_upper, b, ret.args.v)
                      + ValidSum(ret.res.ld_lower, b, ret.args.v)
    /\ (ret.op = "layer.backward" /\ ~ret.res.err) =>
          \A b \in Range(Len(ret.args.v)) :
              /\ ret.res.spline[b] =
                    ValidSum(ret.res.ld_upper, b, ret.args.v)
                        + ValidSum(ret.res.ld_lower, b, ret.args.v)
              /\ ret.res.affine[b] =
                    -(ret.args.v[b] * AffineLogDet(Flows(ret.list)[ret.i]))
    /\ ret.op = "GF.forward" =>
          \A b \in Range(Len(ret.args.V)) :
              ret.res.prior_logprob[b] = ValidPrior(ret.res.Z, b, ret.args.V)

\* a forward call where a padded position carries a nonzero spline term
C7_Witness ==
    /\ ret.op = "layer.forward"
    /\ AffineLogDet(Flows(ret.list)[ret.i]) # 0
    /\ \E b \in Range(Len(ret.args.v)) :
          \E n \in Range(Shape1(ret.args.x)) \ Valid(ret.args.v[b], Shape1(ret.args.x)) :
              SumSeq(ret.res.ld_upper[b][n]) + SumSeq(ret.res.ld_lower[b][n]) # 0

PredictCalls ==
    [k \in Range(NumFlows) |-> Call("flows_L", k)] \o <<Call("ep.forward", 0)>>

\* any adjacency of the batch's shape: the embedding GF.forward hands to the
\* edge-predictor loss does not read it
NoEdges(X) ==
    Eager([b \in Range(Shape0(X)) |-> Eager([i \in Range(Shape1(X)) |->
        Eager([j \in Range(Shape1(X)) |-> 0])])])

\* C10: predict_A_from_E runs flows_L in list order, the edge predictor's
\* forward and a sigmoid, nothing else; the edge predictor gets the embedding
\* GF.forward hands to the edge-predictor loss for the same X and V.
C10_Predict ==
    ret.op = "GF.predict_A_from_E" =>
        /\ ret.res.calls = PredictCalls
        /\ ret.res.ep_in =
              GF_forward(gf, ret.args.X, NoEdges(ret.args.X), ret.args.V).ep_in
        /\ ret.res.A =
              SigmoidAll(EP_forward(After(NumFlows, ret.args.X, ret.args.V), ret.args.V))

C10_Witness ==
    /\ ret.op = "GF.predict_A_from_E"
    /\ steps > 0
    /\ ret.res.ep_in # ret.args.X
    /\ \E b \in Range(Len(ret.res.A)) : \E i, j \in Range(Len(ret.res.A[b])) :
          ret.res.A[b][i][j] # Sigmoid(0)

BackwardCalls ==
    <<Call("final_actnorm", 0)>>
        \o [k \in Range(NumFlows) |-> Call("flows_Z", NumFlows + 1 - k)]

\* C6: GF.backward inverts the final ActNorm, then flows_Z in reverse, never
\* flows_L; on the latent GF.forward returned it gives back the embedding
\* forward had after flows_L.
C6_PartialInverse ==
    RoundTripOfGF =>
        /\ ~ret.res.err
        /\ ret.res.calls = BackwardCalls
        /\ ret.res.Z = ret.fwd.res.ep_in

Norms == 0 .. 2 * NumFlows
NormOf(k) == IF k = 0 THEN final_actnorm ELSE (flows_L \o flows_Z)[k].actnorm

\* actnorm.forward(x, v)
ActNormForward(k, nb, s) ==
    /\ ret = Idle
    /\ ret' = [op |-> "ActNorm.forward", an |-> NormOf(k),
               args |-> [x |-> BatchX(nb, s), v |-> BatchV(nb, s)],
               res |-> ActNorm_forward(NormOf(k), BatchX(nb, s), BatchV(nb, s))]
    /\ UNCHANGED <<flows_L, flows_Z, final_actnorm, steps>>

DoActNormBackward(an, z, v, fwd) ==
    /\ ret' = [op |-> "ActNorm.backward", an |-> an, args |-> [z |-> z, v |-> v],
               res |-> ActNorm_backward(an, z, v), fwd |-> fwd]
    /\ UNCHANGED <<flows_L, flows_Z, final_actnorm, steps>>

\* actnorm.backward(z, v) on a latent from the data
ActNormBackward(k, nb, s) ==
    /\ ret = Idle
    /\ DoActNormBackward(NormOf(k), BatchX(nb, s), BatchV(nb, s), Idle)

\* actnorm.backward(z, v) on the output of the actnorm.forward(x, v) just made
ActNormRoundTrip ==
    /\ ret.op = "ActNorm.forward"
    /\ DoActNormBackward(ret.an, ret.res.z, ret.args.v, ret)

\* conv.forward(x, v) on the linear mix of one coupling layer
ConvForward(list, i, nb, s) ==
    /\ ret = Idle
    /\ ret' = [op |-> "OneByOneConv.forward", list |-> list, i |-> i,
               args |-> [x |-> BatchX(nb, s), v |-> BatchV(nb, s)],
               res |-> OneByOneConv_forward(Flows(list)[i].conv, BatchX(nb, s), BatchV(nb, s))]
    /\ UNCHANGED <<flows_L, flows_Z, final_actnorm, steps>>

\* conv.backward(z, v) returning r: the call leaves W_inv filled
ConvBackwardReturns(list, i, z, v, r) ==
    /\ ret' = [op |-> "OneByOneConv.backward", list |-> list, i |-> i,
               args |-> [z |-> z, v |-> v], res |-> r]
    /\ flows_L' = IF list = "flows_L" THEN [flows_L EXCEPT ![i].conv = r.conv] ELSE flows_L
    /\ flows_Z' = IF list = "flows_Z" THEN [flows_Z EXCEPT ![i].conv = r.conv] ELSE flows_Z
    /\ UNCHANGED <<final_actnorm, steps>>

ConvBackward(list, i, nb, s) ==
    /\ ret = Idle
    /\ ConvBackwardReturns(list, i, BatchX(nb, s), BatchV(nb, s),
            OneByOneConv_backward(Flows(list)[i].conv, BatchX(nb, s), BatchV(nb, s)))

NextAffine ==
    \/ OptimizerStep
    \/ \E k \in Norms, bs \in Batches : ActNormForward(k, bs[1], bs[2])
    \/ \E k \in Norms, bs \in Batches : ActNormBackward(k, bs[1], bs[2])
    \/ ActNormRoundTrip
    \/ \E list \in Lists, i \in Range(NumFlows), bs \in Batches :
          ConvForward(list, i, bs[1], bs[2])
    \/ \E list \in Lists, i \in Range(NumFlows), bs \in Batches :
          ConvBackward(list, i, bs[1], bs[2])
    \/ Return

SpecAffine == Init /\ [][NextAffine]_vars

\* the per-node log-determinant of an ActNorm: the sum of log_sigma over the
\* features
NormLogDet(an) == SumOver(Range(embedding_dim), an.log_sigma)

RAbs(p) == <<Abs(p[1]), p[2]>>

\* c is log |det W| (to base 2): 2^c = |det W|
IsLogAbsDet(c, W) == Pow2(c) = RAbs(Det(W))

\* every entry of t is c * v[i] for its graph i
PerGraph(t, c, v) ==
    /\ Len(t) = Len(v)
    /\ \A b \in Range(Len(v)) : t[b] = c * v[b]

\* z = x * exp(log_sigma) + mu, entry by entry
Scaled(z, x, an) ==
    \A b \in Range(Shape0(x)) : \A n \in Range(Shape1(x)) : \A d \in Range(embedding_dim) :
        z[b][n][d] = RAdd(RMul(x[b][n][d], Pow2(an.log_sigma[d])), an.mu[d])

\* C11: ActNorm and the linear mix return the log-determinant c * v[i] from
\* forward and -c * v[i] from backward, c being the sum of log_sigma, or
\* log |det W| of the current W; ActNorm.forward is z = x * exp(log_sigma) + mu
\* and ActNorm.backward undoes it.
C11_AffineLogDet ==
    /\ ret.op = "ActNorm.forward" =>
          /\ PerGraph(ret.res.log_det, NormLogDet(ret.an), ret.args.v)
          /\ Scaled(ret.res.z, ret.args.x, ret.an)
    /\ ret.op = "ActNorm.backward" =>
          /\ PerGraph(ret.res.log_det, -NormLogDet(ret.an), ret.args.v)
          /\ Scaled(ret.args.z, ret.res.x, ret.an)
          /\ ret.fwd.op = "ActNorm.forward" => ret.res.x = ret.fwd.args.x
    /\ ret.op = "OneByOneConv.forward" =>
          \E c \in -2 .. 2 :
              /\ IsLogAbsDet(c, Flows(ret.list)[ret.i].conv.W)
              /\ PerGraph(ret.res.log_det, c, ret.args.v)
    /\ ret.op = "OneByOneConv.backward" =>
          \E c \in -2 .. 2 :
              /\ IsLogAbsDet(c, Flows(ret.list)[ret.i].conv.W)
              /\ PerGraph(ret.res.log_det, -c, ret.args.v)

\* a round trip through a trained ActNorm that scales, shifts and has a
\* nonzero log-determinant
C11_Witness ==
    /\ ret.op = "ActNorm.backward"
    /\ ret.fwd.op = "ActNorm.forward"
    /\ NormLogDet(ret.an) # 0
    /\ ret.an.mu # InitActNorm.mu
    /\ ret.fwd.res.z # ret.res.x
    /\ \E b \in Range(Len(ret.args.v)) : ret.res.log_det[b] # 0

\* ------------------------------------------------- pairwise representation
\* node indices count from 0 as in the code; tuples count from 1
MaxPairNodes == 3

\* np.arange(a, b)
Arange(a, b) == [k \in 1 .. (b - a) |-> a + k - 1]

\* itertools.combinations(np.arange(n), 2) from first element i on: the pairs
\* (i, j), i < j, in lexicographic order
RECURSIVE Combinations(_, _)
Combinations(i, n) ==
    IF i >= n - 1 THEN <<>>
    ELSE [k \in 1 .. (n - 1 - i) |-> <<i, i + k>>] \o Combinations(i + 1, n)

\* np.take(E_k, idx, axis = 0)
Take(E_k, idx) == [k \in 1 .. Len(idx) |-> E_k[idx[k] + 1]]

\* np.r_[first, second, rest] for the pair p = (i, j) of graph E_k
PairRows(E_k, p) ==
    <<E_k[p[1] + 1], E_k[p[2] + 1]>>
        \o Take(E_k, Arange(0, p[1]) \o Arange(p[1] + 1, p[2])
                        \o Arange(p[2] + 1, Len(E_k)))

\* the inner loop over the pairs of one graph, out = [idxs, X, Y]
RECURSIVE PairLoop(_, _, _, _, _)
PairLoop(A_k, E_k, pairs, k, out) ==
    IF k > Len(pairs) THEN out
    ELSE PairLoop(A_k, E_k, pairs, k + 1,
             [Y    |-> Append(out.Y, A_k[pairs[k][1] + 1][pairs[k][2] + 1]),
              X    |-> Append(out.X, PairRows(E_k, pairs[k])),
              idxs |-> Append(out.idxs, pairs[k])])

Min(a, b) == IF a < b THEN a ELSE b

\* for A_k, E_k in zip(A, E): ...
RECURSIVE GraphLoop(_, _, _, _)
GraphLoop(A, E, g, out) ==
    IF g > Min(Len(A), Len(E)) THEN out
    ELSE GraphLoop(A, E, g + 1,
             PairLoop(A[g], E[g], Combinations(0, Len(A[g])), 1, out))

convert_pairwise(A, E) == GraphLoop(A, E, 1, [idxs |-> <<>>, X |-> <<>>, Y |-> <<>>])

\* the same loop over E alone, no Y kept
RECURSIVE PairLoopX(_, _, _, _)
PairLoopX(E_k, pairs, k, out) ==
    IF k > Len(pairs) THEN out
    ELSE PairLoopX(E_k, pairs, k + 1,
             [X    |-> Append(out.X, PairRows(E_k, pairs[k])),
              idxs |-> Append(out.idxs, pairs[k])])

RECURSIVE GraphLoopX(_, _, _)
GraphLoopX(E, g, out) ==
    IF g > Len(E) THEN out
    ELSE GraphLoopX(E, g + 1, PairLoopX(E[g], Combinations(0, Len(E[g])), 1, out))

construct_pairwise_X(E) == GraphLoopX(E, 1, [idxs |-> <<>>, X |-> <<>>])

\* np.zeros((N, N))
ZeroMatrix(N) == [i \in 1 .. N |-> [j \in 1 .. N |-> 0]]

\* variant: only A[i, j] = y, the mirrored entry left out
RECURSIVE FillLoop_OneSided(_, _, _, _)
FillLoop_OneSided(A, idxs, Y_hat, k) ==
    IF k > Min(Len(idxs), Len(Y_hat)) THEN A
    ELSE FillLoop_OneSided(
             [A EXCEPT ![idxs[k][1] + 1][idxs[k][2] + 1] = Y_hat[k]], idxs, Y_hat, k + 1)

\* for (i, j), y in zip(idxs, Y_hat): A[i, j] = y; A[j, i] = y
RECURSIVE FillLoop(_, _, _, _)
FillLoop(A, idxs, Y_hat, k) ==
    IF k > Min(Len(idxs), Len(Y_hat)) THEN A
    ELSE FillLoop(
             [[A EXCEPT ![idxs[k][1] + 1][idxs[k][2] + 1] = Y_hat[k]]
                 EXCEPT ![idxs[k][2] + 1][idxs[k][1] + 1] = Y_hat[k]], idxs, Y_hat, k + 1)

reconstruct_adjacency_OneSided(N, idxs, Y_hat) ==
    FillLoop_OneSided(ZeroMatrix(N), idxs, Y_hat, 1)

reconstruct_adjacency(N, idxs, Y_hat) == FillLoop(ZeroMatrix(N), idxs, Y_hat, 1)

\* the unordered node pairs of a graph of N nodes
NodePairs(N) == {p \in (0 .. N - 1) \X (0 .. N - 1) : p[1] < p[2]}

\* the 0/1 matrix with the edges up above the diagonal, the edges low below
\* it and dg on it
MatrixOf(N, up, low, dg) ==
    [i \in 1 .. N |-> [j \in 1 .. N |->
        IF i < j THEN (IF <<i - 1, j - 1>> \in up THEN 1 ELSE 0)
        ELSE IF i > j THEN (IF <<j - 1, i - 1>> \in low THEN 1 ELSE 0)
        ELSE dg]]

\* the inputs: 0/1 matrices, symmetric or not, as a batch of one graph, and
\* batches of two graphs of the same size; every node has an embedding row
\* of its own
BinaryMatrices(N) ==
    {MatrixOf(N, e[1], e[2], dg) :
        e \in (SUBSET NodePairs(N)) \X (SUBSET NodePairs(N)), dg \in {0, 1}}

Symmetric(A) == \A i, j \in 1 .. Len(A) : A[i][j] = A[j][i]
ZeroDiagonal(A) == \A i \in 1 .. Len(A) : A[i][i] = 0

AdjacencyMatrices(N) == {MatrixOf(N, e, e, 0) : e \in SUBSET NodePairs(N)}

PairBatches(N) ==
    {<<A_1>> : A_1 \in BinaryMatrices(N)}
        \cup {<<p[1], p[2]>> : p \in AdjacencyMatrices(N) \X AdjacencyMatrices(N)}

PairE(nb, N) == [g \in 1 .. nb |-> [n \in 1 .. N |-> <<n - 1, g>>]]

\* idxs, X, Y = convert_pairwise(A, E)
ConvertPairwise(A, E) ==
    /\ ret = Idle
    /\ ret' = [op |-> "convert_pairwise", args |-> [A |-> A, E |-> E],
               res |-> convert_pairwise(A, E)]
    /\ UNCHANGED <<flows_L, flows_Z, final_actnorm, steps>>

\* idxs, X = construct_pairwise_X(E)
ConstructPairwiseX(E) ==
    /\ ret = Idle
    /\ ret' = [op |-> "construct_pairwise_X", args |-> [E |-> E],
               res |-> construct_pairwise_X(E)]
    /\ UNCHANGED <<flows_L, flows_Z, final_actnorm, steps>>

\* A_hat = reconstruct_adjacency(N, idxs, Y) on what convert_pairwise just
\* returned, N the node count of its graphs
ReconstructAdjacency ==
    /\ ret.op = "convert_pairwise"
    /\ ret' = [op |-> "reconstruct_adjacency",
               args |-> [N |-> Len(ret.args.A[1]), idxs |-> ret.res.idxs, Y_hat |-> ret.res.Y],
               res |-> reconstruct_adjacency(Len(ret.args.A[1]), ret.res.idxs, ret.res.Y),
               fwd |-> ret]
    /\ UNCHANGED <<flows_L, flows_Z, final_actnorm, steps>>

NextPairwise ==
    \/ \E N \in 0 .. MaxPairNodes : \E A \in PairBatches(N) :
          ConvertPairwise(A, PairE(Len(A), N))
    \/ \E N \in 0 .. MaxPairNodes : \E nb \in {1, 2} : ConstructPairwiseX(PairE(nb, N))
    \/ ReconstructAdjacency
    \/ Return

SpecPairwise == Init /\ [][NextPairwise]_vars

NumPairs(N) == (N * (N - 1)) \div 2

\* the entries positions of the g-th graph of a batch of graphs of N nodes
Segment(g, N) == ((g - 1) * NumPairs(N) + 1) .. (g * NumPairs(N))

\* the rows of entry x are node i, node j, and then every other node of E_k
\* exactly once
RowsOfPair(x, E_k, p) ==
    /\ Len(x) = Len(E_k)
    /\ x[1] = E_k[p[1] + 1]
    /\ x[2] = E_k[p[2] + 1]
    /\ \A n \in (0 .. Len(E_k) - 1) \ {p[1], p[2]} :
          Cardinality({r \in 3 .. Len(x) : x[r] = E_k[n + 1]}) = 1

\* idxs and X hold, for every graph of E, one entry per unordered node pair
OnePerPair(idxs, X, E) ==
    /\ Len(idxs) = Len(E) * NumPairs(Len(E[1]))
    /\ Len(X) = Len(idxs)
    /\ \A g \in 1 .. Len(E) :
          /\ {idxs[k] : k \in Segment(g, Len(E[g]))} = NodePairs(Len(E[g]))
          /\ \A k \in Segment(g, Len(E[g])) : RowsOfPair(X[k], E[g], idxs[k])

\* C12: convert_pairwise and construct_pairwise_X emit, for a graph of N
\* nodes, exactly one entry per unordered node pair (N * (N - 1) / 2 entries,
\* none repeated), its rows being node i, node j and then every other node
\* once; reconstruct_adjacency gives a symmetric adjacency A with zero
\* diagonal back from the idxs and Y convert_pairwise made of it.
C12_Pairwise ==
    /\ ret.op \in {"convert_pairwise", "construct_pairwise_X"} =>
          OnePerPair(ret.res.idxs, ret.res.X, ret.args.E)
    /\ (/\ ret.op = "reconstruct_adjacency"
        /\ Len(ret.fwd.args.A) = 1
        /\ Symmetric(ret.fwd.args.A[1])
        /\ ZeroDiagonal(ret.fwd.args.A[1])) =>
          ret.res = ret.fwd.args.A[1]

\* a graph of three nodes with an edge and a missing edge, given back
C12_Witness ==
    /\ ret.op = "reconstruct_adjacency"
    /\ Len(ret.fwd.args.A) = 1
    /\ ret.args.N = MaxPairNodes
    /\ Symmetric(ret.fwd.args.A[1])
    /\ ZeroDiagonal(ret.fwd.args.A[1])
    /\ Len(ret.args.idxs) = NumPairs(ret.args.N)
    /\ \E p, q \in NodePairs(ret.args.N) :
          ret.res[p[1] + 1][p[2] + 1] = 1 /\ ret.res[q[2] + 1][q[1] + 1] = 0
====
